---- MODULE Spec2Model ----
(***************************************************************************)
(* SaveArtifactsPlugin.on_agent_output_callback                            *)
(* (src/movie_pitch_agent/save_artifacts_plugin.py).                       *)
(*                                                                         *)
(* One behaviour is one invocation of the callback: Init draws the         *)
(* invocation context and the agent's output message, the actions are the  *)
(* steps of the coroutine, split at its only suspension point (the await   *)
(* of artifact_service.save_artifact), and the Artifact Store is the       *)
(* environment that answers the awaited call.                              *)
(*                                                                         *)
(* Python strings are sequences of one-character strings; an Optional[str] *)
(* is a record [none, chars].  Part and Blob are objects: a Part holds a   *)
(* reference to its Blob (inline_data) and the Blobs live in `heap`, so    *)
(* that copy.copy(part), a shallow copy, shares the Blob with the message. *)
(***************************************************************************)
EXTENDS Integers, Sequences, FiniteSets, TLC

\* Largest number of Parts of the message.
MaxParts == 2

---------------------------------------------------------------------------
\* Optional[str]

None == [none |-> TRUE, chars |-> <<>>]

Str(s) == [none |-> FALSE, chars |-> s]

\* Python truthiness of an Optional[str]: None and '' are falsy.
Truthy(s) == ~s.none /\ Len(s.chars) > 0

\* The characters str.strip() removes (the ones the inputs below use).
Whitespace == {" ", "\t", "\n"}

RECURSIVE LStrip(_)
LStrip(s) ==
    IF s = <<>> THEN <<>>
    ELSE IF Head(s) \in Whitespace THEN LStrip(Tail(s))
    ELSE s

RECURSIVE RStrip(_)
RStrip(s) ==
    IF s = <<>> THEN <<>>
    ELSE IF s[Len(s)] \in Whitespace THEN RStrip(SubSeq(s, 1, Len(s) - 1))
    ELSE s

\* str.strip()
Strip(s) == RStrip(LStrip(s))

DigitChars == <<"0", "1", "2", "3", "4", "5", "6", "7", "8", "9">>

\* str(n) of a natural number, as the f-string formats {i}.
RECURSIVE IntToStr(_)
IntToStr(n) ==
    IF n < 10 THEN <<DigitChars[n + 1]>>
    ELSE IntToStr(n \div 10) \o <<DigitChars[(n % 10) + 1]>>

TextPlain == <<"t", "e", "x", "t", "/", "p", "l", "a", "i", "n">>

\* f'artifact_{invocation_context.invocation_id}_{i}.txt'
GeneratedFileName(inv_id, idx) ==
    <<"a", "r", "t", "i", "f", "a", "c", "t", "_">> \o inv_id \o <<"_">>
        \o IntToStr(idx) \o <<".", "t", "x", "t">>

---------------------------------------------------------------------------
\* Inputs

ImagePng == <<"i", "m", "a", "g", "e", "/", "p", "n", "g">>

\* Blob.mime_type of an incoming Part: absent, empty, whitespace-only, set.
MimeTypes == {None, Str(<<>>), Str(<<" ">>), Str(ImagePng)}

\* Blob.display_name of an incoming Part: absent, empty, whitespace-only, set.
DisplayNames == {None, Str(<<>>), Str(<<" ", " ">>), Str(<<"p", ".", "p", "n", "g">>)}

InvocationIds == {<<"i", "n", "v", "1">>}

\* What the agent produced at one position of the message.
PartInputs ==
    {[inline |-> FALSE, mime_type |-> None, display_name |-> None]}
    \cup {[inline |-> TRUE, mime_type |-> m, display_name |-> d] :
            m \in MimeTypes, d \in DisplayNames}

RECURSIVE SeqsUpTo(_, _)
SeqsUpTo(S, n) ==
    IF n = 0 THEN {<<>>}
    ELSE LET shorter == SeqsUpTo(S, n - 1)
         IN  shorter \cup {Append(s, x) : s \in {t \in shorter : Len(t) = n - 1}, x \in S}

\* What the store may raise: subclasses of Exception.
StoreErrors == {"ValueError", "OSError"}

\* What the store may do to the object it received before it returns.
StoreEffects == {"none", "set_blob_fields", "clear_inline_data"}

---------------------------------------------------------------------------
VARIABLES
    artifact_service,  \* invocation_context.artifact_service is set
    invocation_id,     \* invocation_context.invocation_id
    agent_output,      \* [parts |-> [none, items]]: items are Part objects
    heap,              \* Blob objects, by reference
    pc,                \* position of the coroutine
    i,                 \* loop index of enumerate(agent_output.parts)
    modified,          \* the local `modified`
    pending,           \* the save_artifact call being awaited
    exc,               \* the exception raised into the try block
    ret,               \* the value returned
    escaped,           \* an exception left the callback
    log,               \* records emitted through `logger`
    calls,             \* history: the save_artifact calls made
    received           \* history: the content of the message as received

vars == <<artifact_service, invocation_id, agent_output, heap, pc, i, modified,
          pending, exc, ret, escaped, log, calls, received>>

NoRef == [none |-> TRUE, ref |-> 0]

Ref(r) == [none |-> FALSE, ref |-> r]

\* types.Part for position k of the input.
MakePart(inputs, k) ==
    IF inputs[k].inline
    THEN [text |-> None, inline_data |-> Ref(k)]
    ELSE [text |-> Str(<<"h", "i">>), inline_data |-> NoRef]

\* types.Blob for position k of the input.
MakeBlob(inputs, k) ==
    [data |-> "bytes", mime_type |-> inputs[k].mime_type,
     display_name |-> inputs[k].display_name]

\* The caller-visible content of the message: every Part with its Blob read
\* through the reference.
Content(output, h) ==
    [k \in 1..Len(output.parts.items) |->
        LET part == output.parts.items[k]
        IN  IF part.inline_data.none
            THEN [text |-> part.text, inline |-> FALSE]
            ELSE [text |-> part.text, inline |-> TRUE,
                  data |-> h[part.inline_data.ref].data,
                  mime_type |-> h[part.inline_data.ref].mime_type,
                  display_name |-> h[part.inline_data.ref].display_name]]

NoCall == [index |-> 0, filename |-> None, artifact |-> [text |-> None, inline_data |-> NoRef]]

Init ==
    /\ artifact_service \in BOOLEAN
    /\ invocation_id \in InvocationIds
    /\ \E parts_none \in BOOLEAN, inputs \in SeqsUpTo(PartInputs, MaxParts) :
        /\ parts_none => inputs = <<>>
        /\ agent_output =
             [parts |-> [none |-> parts_none,
                         items |-> [k \in 1..Len(inputs) |-> MakePart(inputs, k)]]]
        /\ heap = [k \in {j \in 1..Len(inputs) : inputs[j].inline} |-> MakeBlob(inputs, k)]
    /\ pc = "start"
    /\ i = 0
    /\ modified = FALSE
    /\ pending = NoCall
    /\ exc = "none"
    /\ ret = "pending"
    /\ escaped = FALSE
    /\ log = <<>>
    /\ calls = <<>>
    /\ received = Content(agent_output, heap)

---------------------------------------------------------------------------
\* The callback

Parts == agent_output.parts.items

Log(level, event) == Append(log, [level |-> level, event |-> event])

\* Mutant: the guard never fires.
ServiceMissing_Never(service) == FALSE

\* `if not invocation_context.artifact_service:`
ServiceMissing(service) == ~service

\* `if not agent_output.parts:`: parts is None or an empty list.
NoParts(parts) == parts.none \/ Len(parts.items) = 0

\* `if part.inline_data is None: continue`
IsInlineData(part) == ~part.inline_data.none

\* file_name = part.inline_data.display_name; `if not file_name:` replaces it.
FileName(display_name, inv_id, idx) ==
    IF ~Truthy(display_name) THEN Str(GeneratedFileName(inv_id, idx))
    ELSE display_name

\* Mutant: the test without the strip().
NeedsDefaultMime_NoStrip(mime_type) == ~Truthy(mime_type)

\* `if not part.inline_data.mime_type or part.inline_data.mime_type.strip() == ''`
NeedsDefaultMime(mime_type) ==
    ~Truthy(mime_type) \/ Strip(mime_type.chars) = <<>>

\* copy.copy(part): a new Part object whose fields are those of `part`; the
\* Blob that inline_data refers to is not copied.
ShallowCopy(part) == [text |-> part.text, inline_data |-> part.inline_data]

\* enumerate(): the index of the next Part.
NextIndex(idx) == idx + 1

\* Mutant: a handler for ValueError alone.
IsCaught_ValueErrorOnly(e) == e = "ValueError"

\* `except Exception`: what the handler catches.
IsCaught(e) == e \in StoreErrors

\* Mutant: `break` in the handler.
AfterFailure_Break(idx, n) == n

\* Mutant: the handler tries the same Part again.
AfterFailure_Retry(idx, n) == idx

\* The index the loop goes on with after the handler's `continue`.
AfterFailure(idx, n) == NextIndex(idx)

\* Mutant: the message is returned when something was saved.
ReturnValue_IfModified(m) == IF m THEN "agent_output" ELSE "None"

\* `return None` after the loop, whatever `modified` is.
ReturnValue(m) == "None"

\* Lines 43-47: no artifact service: one warning, return None.
GuardNoService ==
    /\ pc = "start"
    /\ ServiceMissing(artifact_service)
    /\ log' = Log("warning", "artifact_service_not_set")
    /\ ret' = "None"
    /\ pc' = "done"
    /\ UNCHANGED <<artifact_service, invocation_id, agent_output, heap, i, modified,
                   pending, exc, escaped, calls, received>>

\* Lines 49-50: no parts: return None.
GuardNoParts ==
    /\ pc = "start"
    /\ ~ServiceMissing(artifact_service)
    /\ NoParts(agent_output.parts)
    /\ ret' = "None"
    /\ pc' = "done"
    /\ UNCHANGED <<artifact_service, invocation_id, agent_output, heap, i, modified,
                   pending, exc, escaped, log, calls, received>>

\* Lines 52-54: modified = False and the loop starts at index 0.
EnterLoop ==
    /\ pc = "start"
    /\ ~ServiceMissing(artifact_service)
    /\ ~NoParts(agent_output.parts)
    /\ modified' = FALSE
    /\ i' = 0
    /\ pc' = "loop"
    /\ UNCHANGED <<artifact_service, invocation_id, agent_output, heap, pending, exc,
                   ret, escaped, log, calls, received>>

\* Lines 55-56: a Part without inline_data is skipped.
SkipPart ==
    /\ pc = "loop"
    /\ i < Len(Parts)
    /\ ~IsInlineData(Parts[i + 1])
    /\ i' = NextIndex(i)
    /\ UNCHANGED <<artifact_service, invocation_id, agent_output, heap, pc, modified,
                   pending, exc, ret, escaped, log, calls, received>>

\* Lines 58-79: the filename, the MIME type default (written to the Part's own
\* Blob), and the call of save_artifact with a shallow copy of the Part.
CallSaveArtifact ==
    /\ pc = "loop"
    /\ i < Len(Parts)
    /\ IsInlineData(Parts[i + 1])
    /\ LET part == Parts[i + 1]
           r == part.inline_data.ref
           blob == heap[r]
           file_name == FileName(blob.display_name, invocation_id, i)
           log1 == IF ~Truthy(blob.display_name)
                   THEN Log("info", "generated_filename") ELSE log
           defaulted == NeedsDefaultMime(blob.mime_type)
           call == [index |-> i, filename |-> file_name, artifact |-> ShallowCopy(part)]
       IN  /\ log' = IF defaulted
                     THEN Append(log1, [level |-> "warning", event |-> "empty_mime_type"])
                     ELSE log1
           /\ heap' = IF defaulted
                      THEN [heap EXCEPT ![r].mime_type = Str(TextPlain)]
                      ELSE heap
           /\ pending' = call
           /\ calls' = Append(calls,
                  [index |-> i, filename |-> file_name, artifact |-> call.artifact,
                   mime_type |-> heap'[call.artifact.inline_data.ref].mime_type,
                   outcome |-> "pending"])
    /\ pc' = "await"
    /\ UNCHANGED <<artifact_service, invocation_id, agent_output, i, modified, exc,
                   ret, escaped, received>>

\* What a store that writes to the object it was given does: to the fields of
\* the Blob the received Part refers to ("set_blob_fields"), or to the
\* received Part itself ("clear_inline_data", which leaves every Blob alone).
StoreWrites(effect, artifact, h) ==
    IF effect = "set_blob_fields"
    THEN [h EXCEPT ![artifact.inline_data.ref] =
            [data |-> "overwritten", mime_type |-> Str(<<"x">>),
             display_name |-> Str(<<"x">>)]]
    ELSE h

\* The store answers the awaited call: it returns, after possibly writing to
\* what it received.
StoreReturns ==
    /\ pc = "await"
    /\ \E effect \in StoreEffects :
        /\ heap' = StoreWrites(effect, pending.artifact, heap)
        /\ pending' = IF effect = "clear_inline_data"
                      THEN [pending EXCEPT !.artifact.inline_data = NoRef]
                      ELSE pending
        /\ calls' = [calls EXCEPT ![Len(calls)].outcome = "saved"]
    /\ pc' = "saved"
    /\ UNCHANGED <<artifact_service, invocation_id, agent_output, i, modified, exc,
                   ret, escaped, log, received>>

\* The store answers the awaited call by raising.
StoreRaises ==
    /\ pc = "await"
    /\ \E e \in StoreErrors : exc' = e
    /\ calls' = [calls EXCEPT ![Len(calls)].outcome = "failed"]
    /\ pc' = "raised"
    /\ UNCHANGED <<artifact_service, invocation_id, agent_output, heap, i, modified,
                   pending, ret, escaped, log, received>>

\* Lines 81-82: after a save that returned.
AfterSave ==
    /\ pc = "saved"
    /\ modified' = TRUE
    /\ log' = Log("info", "saved_artifact")
    /\ i' = NextIndex(i)
    /\ pending' = NoCall
    /\ pc' = "loop"
    /\ UNCHANGED <<artifact_service, invocation_id, agent_output, heap, exc, ret,
                   escaped, calls, received>>

\* Lines 84-86: the handler logs the error and continues with the next Part;
\* an exception it does not catch leaves the callback.
ExceptHandler ==
    /\ pc = "raised"
    /\ IF IsCaught(exc)
       THEN /\ log' = Log("error", "failed_to_save")
            /\ i' = AfterFailure(i, Len(Parts))
            /\ pc' = "loop"
            /\ UNCHANGED <<escaped, ret>>
       ELSE /\ escaped' = TRUE
            /\ ret' = "raised"
            /\ pc' = "done"
            /\ UNCHANGED <<log, i>>
    /\ exc' = "none"
    /\ pending' = NoCall
    /\ UNCHANGED <<artifact_service, invocation_id, agent_output, heap, modified,
                   calls, received>>

\* Line 90: the loop is over.
Return ==
    /\ pc = "loop"
    /\ i >= Len(Parts)
    /\ ret' = ReturnValue(modified)
    /\ pc' = "done"
    /\ UNCHANGED <<artifact_service, invocation_id, agent_output, heap, i, modified,
                   pending, exc, escaped, log, calls, received>>

Next ==
    \/ GuardNoService
    \/ GuardNoParts
    \/ EnterLoop
    \/ SkipPart
    \/ CallSaveArtifact
    \/ StoreReturns
    \/ StoreRaises
    \/ AfterSave
    \/ ExceptHandler
    \/ Return

Spec == Init /\ [][Next]_vars

---------------------------------------------------------------------------
\* Properties

\* A display name or media type that is absent, empty or whitespace-only.
IsBlank(s) == s.none \/ \A k \in 1..Len(s.chars) : s.chars[k] \in Whitespace

\* The zero-based indices of the inline-binary Parts of the message as
\* received, ascending.
InlineIndices ==
    SelectSeq([k \in 1..Len(received) |-> k - 1], LAMBDA j : received[j + 1].inline)

CallIndices == [k \in 1..Len(calls) |-> calls[k].index]

Warnings == SelectSeq(log, LAMBDA entry : entry.level = "warning")

\* C1: at every point of the invocation the caller-visible message has the
\* Parts it was received with, each with the content, media type and display
\* name it had.
C1_MessageUnchanged == Content(agent_output, heap) = received

\* C2: once the invocation is over, for every Part whose save_artifact call
\* raised, every inline-binary Part at a later index has a save_artifact call
\* of its own.
C2_FailureIsolation ==
    pc = "done" =>
        \A k \in 1..Len(calls) :
            calls[k].outcome = "failed" =>
                \A j \in (calls[k].index + 1)..(Len(received) - 1) :
                    received[j + 1].inline =>
                        \E c \in 1..Len(calls) : calls[c].index = j

\* C2 witness: the store raised for Part 0 and Part 1 was attempted after it.
C2_Witness ==
    /\ pc = "done"
    /\ Len(calls) = 2
    /\ calls[1].outcome = "failed"
    /\ calls[1].index = 0
    /\ calls[2].index = 1

\* C3: without an artifact service no save_artifact call is ever made, and the
\* invocation ends with exactly one warning logged and None returned.
C3_NoServiceNoCalls ==
    ~artifact_service =>
        /\ calls = <<>>
        /\ pc = "done" => Len(Warnings) = 1 /\ ret = "None"

\* C3 witness: an invocation without a service, over a message that holds an
\* inline-binary Part, has ended.
C3_Witness ==
    /\ ~artifact_service
    /\ pc = "done"
    /\ \E k \in 1..Len(received) : received[k].inline

\* C4: no exception leaves the callback, and the callback is never stuck: it
\* has returned or has a step to take.
C4_NoErrorEscapes ==
    /\ ~escaped
    /\ ret # "raised"
    /\ pc = "done" \/ ENABLED Next

\* C4 witness: the store raised for both Parts of a two-Part message, both
\* errors were logged, and the callback returned.
C4_Witness ==
    /\ pc = "done"
    /\ Len(calls) = 2
    /\ calls[1].outcome = "failed"
    /\ calls[2].outcome = "failed"
    /\ Len(SelectSeq(log, LAMBDA entry : entry.level = "error")) = 2

\* C5: whenever the callback has returned, it returned None.
C5_ReturnsNone == pc = "done" => ret = "None"

\* C5 witness: the callback returned after one Part was saved and one failed.
C5_Witness ==
    /\ pc = "done"
    /\ modified
    /\ \E k \in 1..Len(calls) : calls[k].outcome = "saved"
    /\ \E k \in 1..Len(calls) : calls[k].outcome = "failed"

\* C6: every save_artifact call for the Part at index idx carries the Part's
\* display name when that is non-blank, and artifact_{invocation_id}_{idx}.txt
\* otherwise.
C6_FilenameRule ==
    \A k \in 1..Len(calls) :
        LET idx == calls[k].index
            name == received[idx + 1].display_name
        IN  calls[k].filename =
                IF IsBlank(name) THEN Str(GeneratedFileName(invocation_id, idx))
                ELSE name

\* C7: at every save_artifact call the Part handed over has a non-blank media
\* type: its own when that was non-blank, text/plain otherwise.
C7_MimeTypeAtCall ==
    \A k \in 1..Len(calls) :
        LET own == received[calls[k].index + 1].mime_type
        IN  /\ ~IsBlank(calls[k].mime_type)
            /\ calls[k].mime_type = IF IsBlank(own) THEN Str(TextPlain) ELSE own

\* C7 witness: a Part received with a whitespace-only media type was handed
\* over as text/plain, and one received as image/png was handed over as such.
C7_Witness ==
    /\ Len(calls) = 2
    /\ received[1].mime_type = Str(<<" ">>)
    /\ calls[1].mime_type = Str(TextPlain)
    /\ received[2].mime_type = Str(ImagePng)
    /\ calls[2].mime_type = Str(ImagePng)

\* C8: no step the store takes while the call is awaited, whatever it writes
\* to the object it received, changes the content of the message.
C8_CopyIsolation ==
    [][pc = "await" => Content(agent_output, heap)' = Content(agent_output, heap)]_vars

\* C9: every save_artifact call carries a non-blank filename.
C9_FilenameNonBlank ==
    \A k \in 1..Len(calls) : ~IsBlank(calls[k].filename)

\* C10: with an artifact service, the save_artifact calls made so far are, in
\* order and once each, the first inline-binary Parts of the message, and all
\* of them once the callback has returned.
C10_CallSequence ==
    artifact_service =>
        /\ Len(CallIndices) <= Len(InlineIndices)
        /\ CallIndices = SubSeq(InlineIndices, 1, Len(CallIndices))
        /\ pc = "done" => CallIndices = InlineIndices

\* C10 witness: a text Part was passed over, and the one inline-binary Part
\* after it was attempted once, failed, and was not attempted again.
C10_Witness ==
    /\ artifact_service
    /\ pc = "done"
    /\ Len(received) = 2
    /\ ~received[1].inline
    /\ CallIndices = <<1>>
    /\ calls[1].outcome = "failed"

====
